---- MODULE Spec2Model ----
(***************************************************************************)
(* markel1974/logger: the sharded concurrent map of src/logwrapper.go      *)
(* (ConcurrentMap, lines 259-517).  Goroutines calling the map are the     *)
(* processes of Procs; every statement that takes or releases a partition  *)
(* lock, reads the partition's mapping or writes it is one step.           *)
(***************************************************************************)
EXTENDS Integers, Sequences, FiniteSets, TLC

\* ---------------------------------------------------------------- bounds
\* goroutines that call the map concurrently
NumProcs == 2
\* calls started in one behaviour, over all goroutines
MaxCalls == 3
\* rows the calls that return may log in one behaviour
MaxRows == 1

\* ------------------------------------------------------- program constants
totalShardCount == 32

\* the zero value of interface{} (what a miss of shard.items[key] yields)
nil == 0

\* uint32 arithmetic is done on 16-bit halves: 2^32 exceeds TLC's integers
Half == 2 ^ 16
Byte == 2 ^ 8

\* keys are strings, modelled as their byte sequences: "a", "A", "b"
Keys == { <<97>>, <<65>>, <<98>> }
\* the opaque values callers store (additive combinators add them up)
Values == { 1, 2 }

Procs == 1 .. NumProcs

\* ------------------------------------------------------------- the router
RECURSIVE BitXor(_, _)
BitXor(a, b) ==
    IF a = 0 THEN b
    ELSE IF b = 0 THEN a
    ELSE (((a % 2) + (b % 2)) % 2) + 2 * BitXor(a \div 2, b \div 2)

\* hash *= prime32, modulo 2^32; prime32 = 16777619 = 256 * 2^16 + 403
HashMul(hash) ==
    LET low == hash.lo * 403
    IN  [ lo |-> low % Half,
          hi |-> ((hash.hi * 403) + (hash.lo * 256) + (low \div Half)) % Half ]

\* hash ^= uint32(key[i])
HashXor(hash, byte) ==
    [ lo |-> (hash.lo \div Byte) * Byte + BitXor(hash.lo % Byte, byte),
      hi |-> hash.hi ]

RECURSIVE fnv32From(_, _, _)
fnv32From(hash, key, i) ==
    IF i > Len(key) THEN hash
    ELSE fnv32From(HashXor(HashMul(hash), key[i]), key, i + 1)

\* uint32(2166136261) = 33052 * 2^16 + 40389
fnv32(key) == fnv32From([hi |-> 33052, lo |-> 40389], key, 1)

\* uint(fnv32(key)) % uint(totalShardCount)
ShardIndex(key) == fnv32(key).lo % totalShardCount

\* the router's answers for the keys of the model (and for the empty key of a
\* goroutine that is in no call), computed once
Route == [k \in Keys \cup {<<>>} |-> ShardIndex(k)]

\* (mutant) the index is taken from the upper half of the hash
GetShardHigh(key) == fnv32(key).hi % totalShardCount

\* m[uint(fnv32(key)) % uint(totalShardCount)]: the index of the key's partition
GetShard(key) == Route[key]

\* The partitions modelled: those a key of Keys routes to ("a" and "A" share
\* one, "b" has another).  The others stay empty for ever; what they and their
\* goroutines do is what a modelled partition does while it is empty.
Shards == { GetShard(k) : k \in Keys }

VARIABLES
    items,      \* items[s]: partition s's map[string]interface{} (a function on its keys)
    rw,         \* rw[s]: partition s's sync.RWMutex: w (write-locked), r (readers inside)
    pc,         \* pc[p]: where goroutine p stands in its call
    call,       \* call[p]: the call goroutine p is executing, with its arguments
    loc,        \* loc[p]: the call's local variables (v, ok / exists, res), and as
                \* history the partition's mapping when the call took the lock (before)
    calls,      \* calls started so far
    sum,        \* history: sum[k] is what the writes committed under k add up to
    inserted,   \* history: SetIfAbsent calls that found k absent since k was last deleted
    popped,     \* history: Pop calls that found k present since k was last stored
    ipc,        \* the goroutine that calls Iterator / IteratorBuffered and receives from ch
    variant,    \* which of the two it called
    swg,        \* snapshot: the WaitGroup wg
    spc,        \* spc[s]: the snapshot goroutine of partition s
    channels,   \* channels[s]: the chan Tuple of partition s: cap, buf, closed
    sent,       \* sent[s]: the tuples the range loop of snapshot goroutine s has sent
    snap,       \* history: snap[s] is items[s] when snapshot goroutine s took the read lock
    fpc,        \* the fanIn goroutine
    fwg,        \* fanIn: the WaitGroup wg
    wpc,        \* wpc[s]: the forwarding goroutine of channels[s]
    held,       \* held[s]: the tuple t it has received and not yet sent
    out,        \* the output channel ch: cap, buf, closed
    received,   \* the tuples the consumer has received
    nrecv       \* how many receives that took

VARIABLES
    bpc,        \* the goroutine that calls MSet, Count, IsEmpty, IteratorCb or Keys
    bop,        \* which of them it called
    idx,        \* the partition its loop is at (totalShardCount when past the last)
    count,      \* Count: the local count
    data,       \* MSet: the argument, a map from keys to values
    todo,       \* MSet: the keys of data the range loop has yet to visit
    cur,        \* MSet: the key the loop is at
    fnCalls,    \* IteratorCb: the calls of fn made, in order: [Key, Val, shard]
    bsnap,      \* history: bsnap[s] is items[s] when this call read-locked partition s
    ret,        \* what the last call returned: [op, val]
    during,     \* history of the running call: the sizes the map has had since it
                \* began, and whether anybody else has written to the map
    kch,        \* Keys: the channel ch: cap, buf, closed
    kpc,        \* Keys: kpc[s], the goroutine collecting partition s
    kwg,        \* Keys: the WaitGroup wg
    ksent,      \* Keys: ksent[s], the keys goroutine s has sent
    ksnap,      \* history: ksnap[s] is items[s] when goroutine s took the read lock
    kcl,        \* Keys: the goroutine that waits for wg and closes ch
    keys,       \* Keys: the slice keys
    lwInst,     \* the logger's configuration: CurrentLogSeverity, CurrentLogFormat, StringifyEvent
    lpc,        \* the goroutine that calls the logger
    lcall,      \* the logging call it is in: severity, event, whether it exits after
    rows,       \* the rows written by log.Println: [severity, format]
    exit        \* the status the process exited with (none while it runs)

bulkVars == <<bpc, bop, idx, count, data, todo, cur, fnCalls, bsnap, ret>>
keysVars == <<kch, kpc, kwg, ksent, ksnap, kcl, keys>>
logVars == <<lwInst, lpc, lcall, rows, exit>>
callerVars == <<bulkVars, keysVars, logVars>>

mapVars == <<items, rw>>
procVars == <<pc, call, loc, calls>>
histVars == <<sum, inserted, popped>>
snapVars == <<swg, spc, channels, sent, snap>>
fanVars == <<fpc, fwg, wpc, held, out>>
recvVars == <<received, nrecv>>
iterVars == <<ipc, variant, snapVars, fanVars, recvVars>>
vars == <<items, rw, pc, call, loc, calls, sum, inserted, popped, iterVars, callerVars, during>>

NoCall == [op |-> "none", key |-> <<>>, value |-> nil, cb |-> "none"]
NoLoc == [v |-> nil, ok |-> FALSE, res |-> nil, before |-> <<>>]

\* NewConcurrentMap: every partition empty and unlocked
NewConcurrentMap ==
    /\ items = [s \in Shards |-> <<>>]
    /\ rw = [s \in Shards |-> [w |-> FALSE, r |-> 0]]

InitProcs ==
    /\ pc = [p \in Procs |-> "idle"]
    /\ call = [p \in Procs |-> NoCall]
    /\ loc = [p \in Procs |-> NoLoc]
    /\ calls = 0

InitHist ==
    /\ sum = [k \in Keys |-> nil]
    /\ inserted = [k \in Keys |-> 0]
    /\ popped = [k \in Keys |-> 0]

NoTuple == [Key |-> <<>>, Val |-> nil]
NoChan == [cap |-> 0, buf |-> <<>>, closed |-> FALSE]

\* nobody has called Iterator or IteratorBuffered
InitIterator ==
    /\ ipc = "idle"
    /\ variant = "none"
    /\ swg = 0
    /\ spc = [s \in Shards |-> "none"]
    /\ channels = [s \in Shards |-> NoChan]
    /\ sent = [s \in Shards |-> {}]
    /\ snap = [s \in Shards |-> <<>>]
    /\ fpc = "none"
    /\ fwg = 0
    /\ wpc = [s \in Shards |-> "none"]
    /\ held = [s \in Shards |-> NoTuple]
    /\ out = NoChan
    /\ received = {}
    /\ nrecv = 0

NoDuring == [sizes |-> {}, written |-> FALSE]

\* nobody has called MSet, Count, IsEmpty, IteratorCb or Keys
InitBulk ==
    /\ bpc = "idle"
    /\ bop = "none"
    /\ idx = 0
    /\ count = 0
    /\ data = <<>>
    /\ todo = {}
    /\ cur = <<>>
    /\ fnCalls = <<>>
    /\ bsnap = [s \in Shards |-> <<>>]
    /\ ret = [op |-> "none", val |-> nil]
    /\ during = NoDuring

InitKeys ==
    /\ kch = NoChan
    /\ kpc = [s \in Shards |-> "none"]
    /\ kwg = 0
    /\ ksent = [s \in Shards |-> {}]
    /\ ksnap = [s \in Shards |-> <<>>]
    /\ kcl = "none"
    /\ keys = <<>>

\* constants LogFatal .. LogDebug, LogTextFormat, LogJsonFormat
LogFatal == 0 - 1
LogError == 0
LogWarning == 1
LogInfo == 2
LogDebug == 3
LogTextFormat == 0
LogJsonFormat == 1

NoLogCall == [severity |-> LogInfo, event |-> "nil", fatal |-> FALSE, rowsBefore |-> 0]
NoExit == 0 - 1

\* var lwInst = &logWrapper{LogInfo, LogTextFormat, true}; nothing logged
InitLog ==
    /\ lwInst = [CurrentLogSeverity |-> LogInfo,
                 CurrentLogFormat |-> LogTextFormat,
                 StringifyEvent |-> TRUE]
    /\ lpc = "idle"
    /\ lcall = NoLogCall
    /\ rows = <<>>
    /\ exit = NoExit

InitCallers == InitBulk /\ InitKeys /\ InitLog

Init == NewConcurrentMap /\ InitProcs /\ InitHist /\ InitIterator /\ InitCallers

\* ------------------------------------------------------------ sync.RWMutex
Lock(s) ==
    /\ ~rw[s].w
    /\ rw[s].r = 0
    /\ rw' = [rw EXCEPT ![s].w = TRUE]

Unlock(s) == rw' = [rw EXCEPT ![s].w = FALSE]

RLock(s) ==
    /\ ~rw[s].w
    /\ rw' = [rw EXCEPT ![s].r = @ + 1]

RUnlock(s) == rw' = [rw EXCEPT ![s].r = @ - 1]

\* ------------------------------------------------- map[string]interface{}
Has(m, key) == key \in DOMAIN m
Lookup(m, key) == IF Has(m, key) THEN m[key] ELSE nil
Store(m, key, value) == [k \in DOMAIN m \cup {key} |-> IF k = key THEN value ELSE m[k]]
Delete(m, key) == [k \in DOMAIN m \ {key} |-> m[k]]

\* ------------------------------------------------------------- goroutines
\* An idle goroutine starts the call op(key, value, kind): it computes the shard
\* and goes on once it has the shard's lock (a caller blocked in Lock or RLock has
\* done nothing yet that any other goroutine can see).  Idle goroutines are
\* indistinguishable, so the call goes to the lowest-numbered one.
Start(p, op, key, value, kind) ==
    /\ pc[p] = "idle"
    /\ \A q \in Procs : q < p => pc[q] # "idle"
    /\ calls < MaxCalls
    /\ calls' = calls + 1
    /\ call' = [call EXCEPT ![p] = [op |-> op, key |-> key, value |-> value, cb |-> kind]]
    /\ loc' = [loc EXCEPT ![p] = [NoLoc EXCEPT !.before = items[GetShard(key)]]]

Goto(p, label) == pc' = [pc EXCEPT ![p] = label]

Shard(p) == GetShard(call[p].key)

\* the call returns to its caller, which drops the results
Return(p) ==
    /\ Goto(p, "idle")
    /\ call' = [call EXCEPT ![p] = NoCall]
    /\ loc' = [loc EXCEPT ![p] = NoLoc]
    /\ UNCHANGED <<items, calls, histVars>>

\* history of a store of value under key, and of a delete of key
NoteStore(key, value) ==
    /\ sum' = [sum EXCEPT ![key] = value]
    /\ popped' = [popped EXCEPT ![key] = 0]

NoteDelete(key) ==
    /\ sum' = [sum EXCEPT ![key] = nil]
    /\ inserted' = [inserted EXCEPT ![key] = 0]

\* ----------------------------------------------------------------- Set
\* (mutant) Set takes the partition's read lock
SetRLock(p) ==
    /\ \E key \in Keys, value \in Values :
          /\ Start(p, "Set", key, value, "none")
          /\ RLock(GetShard(key))
    /\ Goto(p, "Set.store")
    /\ UNCHANGED <<items, histVars>>

\* shard := m.GetShard(key); shard.Lock()
SetLock(p) ==
    /\ \E key \in Keys, value \in Values :
          /\ Start(p, "Set", key, value, "none")
          /\ Lock(GetShard(key))
    /\ Goto(p, "Set.store")
    /\ UNCHANGED <<items, histVars>>

\* (mutant) Set replaces the partition's mapping by one that holds its entry only
SetStoreFresh(p) ==
    /\ pc[p] = "Set.store"
    /\ items' = [items EXCEPT ![Shard(p)] = Store(<<>>, call[p].key, call[p].value)]
    /\ NoteStore(call[p].key, call[p].value)
    /\ Goto(p, "Set.Unlock")
    /\ UNCHANGED <<rw, call, loc, calls, inserted>>

\* shard.items[key] = value
SetStore(p) ==
    /\ pc[p] = "Set.store"
    /\ items' = [items EXCEPT ![Shard(p)] = Store(@, call[p].key, call[p].value)]
    /\ NoteStore(call[p].key, call[p].value)
    /\ Goto(p, "Set.Unlock")
    /\ UNCHANGED <<rw, call, loc, calls, inserted>>

\* shard.Unlock()
SetUnlock(p) ==
    /\ pc[p] = "Set.Unlock"
    /\ Unlock(Shard(p))
    /\ Return(p)

Set(p) == SetLock(p) \/ SetStore(p) \/ SetUnlock(p)

\* ------------------------------------------------------ UpdateOrInsert
\* the combinators callers pass: the additive one, and one that panics
Combinators == { "add", "panic" }

Min(S) == CHOOSE x \in S : \A y \in S : x <= y

\* existed ? current + candidate : candidate
cb(exist, valueInMap, newValue) ==
    IF exist THEN valueInMap + newValue ELSE newValue

\* (mutant) UpdateOrInsert without shard.Lock()
UpdateOrInsertNoLock(p) ==
    /\ \E key \in Keys, value \in Values, kind \in Combinators :
          /\ kind = "panic" => value = Min(Values)
          /\ Start(p, "UpdateOrInsert", key, value, kind)
    /\ Goto(p, "UpdateOrInsert.read")
    /\ UNCHANGED <<mapVars, histVars>>

\* shard := m.GetShard(key); shard.Lock()
UpdateOrInsertLock(p) ==
    /\ \E key \in Keys, value \in Values, kind \in Combinators :
          /\ kind = "panic" => value = Min(Values)
          /\ Start(p, "UpdateOrInsert", key, value, kind)
          /\ Lock(GetShard(key))
    /\ Goto(p, "UpdateOrInsert.read")
    /\ UNCHANGED <<items, histVars>>

\* v, ok := shard.items[key]
UpdateOrInsertRead(p) ==
    /\ pc[p] = "UpdateOrInsert.read"
    /\ loc' = [loc EXCEPT ![p].v = Lookup(items[Shard(p)], call[p].key),
                          ![p].ok = Has(items[Shard(p)], call[p].key)]
    /\ Goto(p, "UpdateOrInsert.cb")
    /\ UNCHANGED <<mapVars, call, calls, histVars>>

\* (mutant) the candidate is stored before the combinator is called
UpdateOrInsertStoreThenCb(p) ==
    /\ pc[p] = "UpdateOrInsert.cb"
    /\ items' = [items EXCEPT ![Shard(p)] = Store(@, call[p].key, call[p].value)]
    /\ \/ /\ call[p].cb = "add"
          /\ loc' = [loc EXCEPT ![p].res = cb(loc[p].ok, loc[p].v, call[p].value)]
          /\ Goto(p, "UpdateOrInsert.store")
       \/ /\ call[p].cb = "panic"
          /\ Goto(p, "panicked")
          /\ UNCHANGED loc
    /\ UNCHANGED <<rw, call, calls, histVars>>

\* res = cb(ok, v, value): the combinator returns, or it panics and the panic
\* unwinds the call from this line (the function defers nothing)
UpdateOrInsertCb(p) ==
    /\ pc[p] = "UpdateOrInsert.cb"
    /\ \/ /\ call[p].cb = "add"
          /\ loc' = [loc EXCEPT ![p].res = cb(loc[p].ok, loc[p].v, call[p].value)]
          /\ Goto(p, "UpdateOrInsert.store")
       \/ /\ call[p].cb = "panic"
          /\ Goto(p, "panicked")
          /\ UNCHANGED loc
    /\ UNCHANGED <<mapVars, call, calls, histVars>>

\* shard.items[key] = res
UpdateOrInsertStore(p) ==
    /\ pc[p] = "UpdateOrInsert.store"
    /\ items' = [items EXCEPT ![Shard(p)] = Store(@, call[p].key, loc[p].res)]
    /\ NoteStore(call[p].key, sum[call[p].key] + call[p].value)
    /\ Goto(p, "UpdateOrInsert.Unlock")
    /\ UNCHANGED <<rw, call, loc, calls, inserted>>

\* shard.Unlock(); return res
UpdateOrInsertUnlock(p) ==
    /\ pc[p] = "UpdateOrInsert.Unlock"
    /\ Unlock(Shard(p))
    /\ Return(p)

UpdateOrInsert(p) ==
    \/ UpdateOrInsertLock(p)
    \/ UpdateOrInsertRead(p)
    \/ UpdateOrInsertCb(p)
    \/ UpdateOrInsertStore(p)
    \/ UpdateOrInsertUnlock(p)

\* --------------------------------------------------------- SetIfAbsent
\* (mutant) SetIfAbsent without shard.Lock()
SetIfAbsentNoLock(p) ==
    /\ \E key \in Keys, value \in Values : Start(p, "SetIfAbsent", key, value, "none")
    /\ Goto(p, "SetIfAbsent.read")
    /\ UNCHANGED <<mapVars, histVars>>

\* shard := m.GetShard(key); shard.Lock()
SetIfAbsentLock(p) ==
    /\ \E key \in Keys, value \in Values :
          /\ Start(p, "SetIfAbsent", key, value, "none")
          /\ Lock(GetShard(key))
    /\ Goto(p, "SetIfAbsent.read")
    /\ UNCHANGED <<items, histVars>>

\* _, ok := shard.items[key]   (loc.v keeps the value the code discards)
SetIfAbsentRead(p) ==
    /\ pc[p] = "SetIfAbsent.read"
    /\ loc' = [loc EXCEPT ![p].v = Lookup(items[Shard(p)], call[p].key),
                          ![p].ok = Has(items[Shard(p)], call[p].key)]
    /\ Goto(p, "SetIfAbsent.store")
    /\ UNCHANGED <<mapVars, call, calls, histVars>>

\* if !ok { shard.items[key] = value }
SetIfAbsentStore(p) ==
    /\ pc[p] = "SetIfAbsent.store"
    /\ IF ~loc[p].ok
         THEN /\ items' = [items EXCEPT ![Shard(p)] = Store(@, call[p].key, call[p].value)]
              /\ NoteStore(call[p].key, call[p].value)
              /\ inserted' = [inserted EXCEPT ![call[p].key] = @ + 1]
         ELSE UNCHANGED <<items, histVars>>
    /\ Goto(p, "SetIfAbsent.Unlock")
    /\ UNCHANGED <<rw, call, loc, calls>>

\* shard.Unlock(); return !ok
SetIfAbsentUnlock(p) ==
    /\ pc[p] = "SetIfAbsent.Unlock"
    /\ Unlock(Shard(p))
    /\ Return(p)

SetIfAbsent(p) ==
    \/ SetIfAbsentLock(p)
    \/ SetIfAbsentRead(p)
    \/ SetIfAbsentStore(p)
    \/ SetIfAbsentUnlock(p)

\* ----------------------------------------------------------------- Get
\* shard := m.GetShard(key); shard.RLock()
GetRLock(p) ==
    /\ \E key \in Keys :
          /\ Start(p, "Get", key, nil, "none")
          /\ RLock(GetShard(key))
    /\ Goto(p, "Get.read")
    /\ UNCHANGED <<items, histVars>>

\* val, ok := shard.items[key]
GetRead(p) ==
    /\ pc[p] = "Get.read"
    /\ loc' = [loc EXCEPT ![p].v = Lookup(items[Shard(p)], call[p].key),
                          ![p].ok = Has(items[Shard(p)], call[p].key)]
    /\ Goto(p, "Get.RUnlock")
    /\ UNCHANGED <<mapVars, call, calls, histVars>>

\* shard.RUnlock(); return val, ok
GetRUnlock(p) ==
    /\ pc[p] = "Get.RUnlock"
    /\ RUnlock(Shard(p))
    /\ Return(p)

Get(p) == GetRLock(p) \/ GetRead(p) \/ GetRUnlock(p)

\* -------------------------------------------------------------- Remove
\* shard := m.GetShard(key); shard.Lock()
RemoveLock(p) ==
    /\ \E key \in Keys :
          /\ Start(p, "Remove", key, nil, "none")
          /\ Lock(GetShard(key))
    /\ Goto(p, "Remove.delete")
    /\ UNCHANGED <<items, histVars>>

\* (mutant) Remove empties the partition
RemoveDeleteAll(p) ==
    /\ pc[p] = "Remove.delete"
    /\ items' = [items EXCEPT ![Shard(p)] = <<>>]
    /\ NoteDelete(call[p].key)
    /\ Goto(p, "Remove.Unlock")
    /\ UNCHANGED <<rw, call, loc, calls, popped>>

\* delete(shard.items, key)
RemoveDelete(p) ==
    /\ pc[p] = "Remove.delete"
    /\ items' = [items EXCEPT ![Shard(p)] = Delete(@, call[p].key)]
    /\ NoteDelete(call[p].key)
    /\ Goto(p, "Remove.Unlock")
    /\ UNCHANGED <<rw, call, loc, calls, popped>>

\* shard.Unlock()
RemoveUnlock(p) ==
    /\ pc[p] = "Remove.Unlock"
    /\ Unlock(Shard(p))
    /\ Return(p)

Remove(p) == RemoveLock(p) \/ RemoveDelete(p) \/ RemoveUnlock(p)

\* ----------------------------------------------------------------- Pop
\* (mutant) Pop without shard.Lock()
PopNoLock(p) ==
    /\ \E key \in Keys : Start(p, "Pop", key, nil, "none")
    /\ Goto(p, "Pop.read")
    /\ UNCHANGED <<mapVars, histVars>>

\* shard := m.GetShard(key); shard.Lock()
PopLock(p) ==
    /\ \E key \in Keys :
          /\ Start(p, "Pop", key, nil, "none")
          /\ Lock(GetShard(key))
    /\ Goto(p, "Pop.read")
    /\ UNCHANGED <<items, histVars>>

\* v, exists = shard.items[key]   (loc.ok is exists)
PopRead(p) ==
    /\ pc[p] = "Pop.read"
    /\ loc' = [loc EXCEPT ![p].v = Lookup(items[Shard(p)], call[p].key),
                          ![p].ok = Has(items[Shard(p)], call[p].key)]
    /\ popped' = [popped EXCEPT ![call[p].key] =
                     IF Has(items[Shard(p)], call[p].key) THEN @ + 1 ELSE @]
    /\ Goto(p, "Pop.delete")
    /\ UNCHANGED <<mapVars, call, calls, sum, inserted>>

\* delete(shard.items, key)
PopDelete(p) ==
    /\ pc[p] = "Pop.delete"
    /\ items' = [items EXCEPT ![Shard(p)] = Delete(@, call[p].key)]
    /\ NoteDelete(call[p].key)
    /\ Goto(p, "Pop.Unlock")
    /\ UNCHANGED <<rw, call, loc, calls, popped>>

\* shard.Unlock(); return v, exists
PopUnlock(p) ==
    /\ pc[p] = "Pop.Unlock"
    /\ Unlock(Shard(p))
    /\ Return(p)

Pop(p) == PopLock(p) \/ PopRead(p) \/ PopDelete(p) \/ PopUnlock(p)

\* ------------------------------------------- Iterator, IteratorBuffered
Buffered == "IteratorBuffered"
Unbuffered == "Iterator"

workerVars == <<pc, call, loc, calls, histVars, callerVars, during>>

Tuples(m) == { [Key |-> k, Val |-> m[k]] : k \in DOMAIN m }

\* channels := snapshot(m), up to wg.Wait(): wg.Add(totalShardCount) and one
\* goroutine started per partition
snapshot(which) ==
    /\ ipc = "idle"
    /\ variant' = which
    /\ swg' = Cardinality(Shards)
    /\ spc' = [s \in Shards |-> "RLock"]
    /\ ipc' = "snapshot.Wait"
    /\ UNCHANGED <<mapVars, workerVars, channels, sent, snap, fanVars, recvVars>>

\* (mutant) the partition's channel is made without capacity
ChanCapZero(s) == 0

\* len(shard.items), the capacity of the partition's channel
ChanCap(s) == Cardinality(DOMAIN items[s])

\* (mutant) the snapshot goroutine makes its channel without shard.RLock()
SnapshotNoRLock(s) ==
    /\ spc[s] = "RLock"
    /\ channels' = [channels EXCEPT ![s] = [cap |-> ChanCap(s), buf |-> <<>>, closed |-> FALSE]]
    /\ snap' = [snap EXCEPT ![s] = items[s]]
    /\ spc' = [spc EXCEPT ![s] = "Done"]
    /\ UNCHANGED <<mapVars, workerVars, ipc, variant, swg, sent, fanVars, recvVars>>

\* shard.RLock(); channels[index] = make(chan Tuple, len(shard.items))
SnapshotRLock(s) ==
    /\ spc[s] = "RLock"
    /\ RLock(s)
    /\ channels' = [channels EXCEPT ![s] = [cap |-> ChanCap(s), buf |-> <<>>, closed |-> FALSE]]
    /\ snap' = [snap EXCEPT ![s] = items[s]]
    /\ spc' = [spc EXCEPT ![s] = "Done"]
    /\ UNCHANGED <<items, workerVars, ipc, variant, swg, sent, fanVars, recvVars>>

\* wg.Done()
SnapshotDone(s) ==
    /\ spc[s] = "Done"
    /\ swg' = swg - 1
    /\ spc' = [spc EXCEPT ![s] = "range"]
    /\ UNCHANGED <<mapVars, workerVars, ipc, variant, channels, sent, snap, fanVars, recvVars>>

\* the keys of shard.items the range loop has not yet come to
Unvisited(s) == DOMAIN items[s] \ { t.Key : t \in sent[s] }

\* for key, val := range shard.items { channels[index] <- Tuple{key, val} }:
\* one iteration, in the order the map yields its keys
SnapshotSend(s) ==
    /\ spc[s] = "range"
    /\ Len(channels[s].buf) < channels[s].cap
    /\ \E key \in Unvisited(s) :
          LET t == [Key |-> key, Val |-> items[s][key]]
          IN  /\ channels' = [channels EXCEPT ![s].buf = Append(@, t)]
              /\ sent' = [sent EXCEPT ![s] = @ \cup {t}]
    /\ UNCHANGED <<mapVars, workerVars, ipc, variant, swg, spc, snap, fanVars, recvVars>>

\* the range loop is over; shard.RUnlock()
SnapshotRUnlock(s) ==
    /\ spc[s] = "range"
    /\ Unvisited(s) = {}
    /\ RUnlock(s)
    /\ spc' = [spc EXCEPT ![s] = "close"]
    /\ UNCHANGED <<items, workerVars, ipc, variant, swg, channels, sent, snap, fanVars, recvVars>>

\* close(channels[index])
SnapshotClose(s) ==
    /\ spc[s] = "close"
    /\ channels' = [channels EXCEPT ![s].closed = TRUE]
    /\ spc' = [spc EXCEPT ![s] = "end"]
    /\ UNCHANGED <<mapVars, workerVars, ipc, variant, swg, sent, snap, fanVars, recvVars>>

\* wg.Wait(); return channels
SnapshotWait ==
    /\ ipc = "snapshot.Wait"
    /\ swg = 0
    /\ ipc' = "make"
    /\ UNCHANGED <<mapVars, workerVars, variant, snapVars, fanVars, recvVars>>

RECURSIVE SumCap(_)
SumCap(S) ==
    IF S = {} THEN 0
    ELSE LET s == CHOOSE x \in S : TRUE IN channels[s].cap + SumCap(S \ {s})

\* (mutant) the output channel is one slot short of the tuples copied out
TotalLessOne == IF SumCap(Shards) > 0 THEN SumCap(Shards) - 1 ELSE 0

\* total := 0; for _, c := range channels { total += cap(c) }
Total == SumCap(Shards)

\* ch := make(chan Tuple); go fanIn(channels, ch); return ch
Iterator ==
    \/ snapshot(Unbuffered)
    \/ /\ ipc = "make"
       /\ variant = Unbuffered
       /\ out' = [cap |-> 0, buf |-> <<>>, closed |-> FALSE]
       /\ fpc' = "start"
       /\ ipc' = "range"
       /\ UNCHANGED <<mapVars, workerVars, variant, snapVars, fwg, wpc, held, recvVars>>

\* ch := make(chan Tuple, total); go fanIn(channels, ch); return ch
IteratorBuffered ==
    \/ snapshot(Buffered)
    \/ /\ ipc = "make"
       /\ variant = Buffered
       /\ out' = [cap |-> Total, buf |-> <<>>, closed |-> FALSE]
       /\ fpc' = "start"
       /\ ipc' = "range"
       /\ UNCHANGED <<mapVars, workerVars, variant, snapVars, fwg, wpc, held, recvVars>>

\* fanIn: wg.Add(len(channels)) and one forwarding goroutine started per channel
FanInStart ==
    /\ fpc = "start"
    /\ fwg' = Cardinality(Shards)
    /\ wpc' = [s \in Shards |-> "recv"]
    /\ fpc' = "Wait"
    /\ UNCHANGED <<mapVars, workerVars, ipc, variant, snapVars, held, out, recvVars>>

\* for t := range ch: a tuple is received
ForwardRecv(s) ==
    /\ wpc[s] = "recv"
    /\ channels[s].buf # <<>>
    /\ held' = [held EXCEPT ![s] = Head(channels[s].buf)]
    /\ channels' = [channels EXCEPT ![s].buf = Tail(@)]
    /\ wpc' = [wpc EXCEPT ![s] = "send"]
    /\ UNCHANGED <<mapVars, workerVars, ipc, variant, swg, spc, sent, snap, fpc, fwg, out,
                   recvVars>>

\* out <- t, the tuple going into the buffer of ch, which has room
ForwardSend(s) ==
    /\ wpc[s] = "send"
    /\ Len(out.buf) < out.cap
    /\ out' = [out EXCEPT !.buf = Append(@, held[s])]
    /\ held' = [held EXCEPT ![s] = NoTuple]
    /\ wpc' = [wpc EXCEPT ![s] = "recv"]
    /\ UNCHANGED <<mapVars, workerVars, ipc, variant, snapVars, fpc, fwg, recvVars>>

\* out <- t on a channel without buffer: the send and the consumer's receive
\* are one event, which takes a consumer that is receiving
ForwardHandoff(s) ==
    /\ wpc[s] = "send"
    /\ out.cap = 0
    /\ ipc = "range"
    /\ received' = received \cup {held[s]}
    /\ nrecv' = nrecv + 1
    /\ held' = [held EXCEPT ![s] = NoTuple]
    /\ wpc' = [wpc EXCEPT ![s] = "recv"]
    /\ UNCHANGED <<mapVars, workerVars, ipc, variant, snapVars, fpc, fwg, out>>

\* (mutant) the forwarding goroutine stops as soon as its channel is empty
ForwardDoneWhenEmpty(s) ==
    /\ wpc[s] = "recv"
    /\ channels[s].buf = <<>>
    /\ fwg' = fwg - 1
    /\ wpc' = [wpc EXCEPT ![s] = "end"]
    /\ UNCHANGED <<mapVars, workerVars, ipc, variant, snapVars, fpc, held, out, recvVars>>

\* for t := range ch ends: ch is closed and drained; wg.Done()
ForwardDone(s) ==
    /\ wpc[s] = "recv"
    /\ channels[s].buf = <<>>
    /\ channels[s].closed
    /\ fwg' = fwg - 1
    /\ wpc' = [wpc EXCEPT ![s] = "end"]
    /\ UNCHANGED <<mapVars, workerVars, ipc, variant, snapVars, fpc, held, out, recvVars>>

\* (mutant) fanIn closes out without wg.Wait()
FanInCloseNoWait ==
    /\ fpc = "Wait"
    /\ out' = [out EXCEPT !.closed = TRUE]
    /\ fpc' = "end"
    /\ UNCHANGED <<mapVars, workerVars, ipc, variant, snapVars, fwg, wpc, held, recvVars>>

\* wg.Wait(); close(out)
FanInClose ==
    /\ fpc = "Wait"
    /\ fwg = 0
    /\ out' = [out EXCEPT !.closed = TRUE]
    /\ fpc' = "end"
    /\ UNCHANGED <<mapVars, workerVars, ipc, variant, snapVars, fwg, wpc, held, recvVars>>

forward(s) == ForwardRecv(s) \/ ForwardSend(s) \/ ForwardDone(s)

fanIn == FanInStart \/ (\E s \in Shards : forward(s)) \/ FanInClose

\* the consumer, as in Items: for item := range ch { ... }: a tuple is received
\* from the buffer
ConsumerRecv ==
    /\ ipc = "range"
    /\ out.buf # <<>>
    /\ received' = received \cup {Head(out.buf)}
    /\ nrecv' = nrecv + 1
    /\ out' = [out EXCEPT !.buf = Tail(@)]
    /\ UNCHANGED <<mapVars, workerVars, ipc, variant, snapVars, fpc, fwg, wpc, held>>

\* the consumer's range loop ends: ch is closed and drained
ConsumerEnd ==
    /\ ipc = "range"
    /\ out.buf = <<>>
    /\ out.closed
    /\ ipc' = "drained"
    /\ UNCHANGED <<mapVars, workerVars, variant, snapVars, fanVars, recvVars>>

\* the consumer stops receiving before ch is closed
ConsumerAbandon ==
    /\ ipc = "range"
    /\ ~out.closed
    /\ ipc' = "abandoned"
    /\ UNCHANGED <<mapVars, workerVars, variant, snapVars, fanVars, recvVars>>

snapshotTask(s) ==
    \/ SnapshotRLock(s)
    \/ SnapshotDone(s)
    \/ SnapshotSend(s)
    \/ SnapshotRUnlock(s)
    \/ SnapshotClose(s)

Pipeline ==
    \/ Iterator
    \/ IteratorBuffered
    \/ SnapshotWait
    \/ \E s \in Shards : snapshotTask(s)
    \/ fanIn

\* the consumer's steps: its receives (from the buffer, or straight from a
\* forwarding goroutine), the end of its loop, its giving up
Consumer ==
    \/ ConsumerRecv
    \/ \E s \in Shards : ForwardHandoff(s)
    \/ ConsumerEnd
    \/ ConsumerAbandon

\* ----------------------------------------------------------------- Has
\* shard := m.GetShard(key); shard.RLock()
HasRLock(p) ==
    /\ \E key \in Keys :
          /\ Start(p, "Has", key, nil, "none")
          /\ RLock(GetShard(key))
    /\ Goto(p, "Has.read")
    /\ UNCHANGED <<items, histVars>>

\* _, ok := shard.items[key]
HasRead(p) ==
    /\ pc[p] = "Has.read"
    /\ loc' = [loc EXCEPT ![p].ok = Has(items[Shard(p)], call[p].key)]
    /\ Goto(p, "Has.RUnlock")
    /\ UNCHANGED <<mapVars, call, calls, histVars>>

\* shard.RUnlock(); return ok
HasRUnlock(p) ==
    /\ pc[p] = "Has.RUnlock"
    /\ RUnlock(Shard(p))
    /\ Return(p)

HasCall(p) == HasRLock(p) \/ HasRead(p) \/ HasRUnlock(p)

\* ------------------------------------- the loops over all the partitions
\* for i := 0; i < totalShardCount; i++ / for idx := range m: the partitions in
\* index order.  A partition no key of Keys routes to is empty and nobody else
\* locks it: the loop's turn at it changes nothing, and is left out.
FirstIdx == Min(Shards)
NextIdx(i) ==
    IF \E s \in Shards : s > i THEN Min({ s \in Shards : s > i }) ELSE totalShardCount

RECURSIVE SizeOver(_, _)
SizeOver(m, S) ==
    IF S = {} THEN 0
    ELSE LET s == CHOOSE x \in S : TRUE
         IN  Cardinality(DOMAIN m[s]) + SizeOver(m, S \ {s})

\* the number of entries of the whole map
MapSize(m) == SizeOver(m, Shards)

\* the goroutine starts a call of op
BulkStart(op) ==
    /\ bpc = "idle"
    /\ calls < MaxCalls
    /\ calls' = calls + 1
    /\ bop' = op
    /\ bsnap' = [s \in Shards |-> <<>>]
    /\ during' = [sizes |-> {MapSize(items)}, written |-> FALSE]

\* what a step of this goroutine leaves alone
othersVars == <<pc, call, loc, iterVars, keysVars, logVars>>

\* the call returns to its caller, which drops the results; the goroutines
\* Keys started are through by then
BulkReturn ==
    /\ bpc' = "idle"
    /\ bop' = "none"
    /\ idx' = 0
    /\ count' = 0
    /\ data' = <<>>
    /\ todo' = {}
    /\ cur' = <<>>
    /\ fnCalls' = <<>>
    /\ bsnap' = [s \in Shards |-> <<>>]
    /\ ret' = [op |-> "none", val |-> nil]
    /\ during' = NoDuring
    /\ kch' = NoChan
    /\ kpc' = [s \in Shards |-> "none"]
    /\ kwg' = 0
    /\ ksent' = [s \in Shards |-> {}]
    /\ ksnap' = [s \in Shards |-> <<>>]
    /\ kcl' = "none"
    /\ keys' = <<>>
    /\ UNCHANGED <<mapVars, calls, histVars, pc, call, loc, iterVars, logVars>>

\* -------------------------------------------------------- Count, IsEmpty
\* count := 0; for i := 0; ...
CountCall(op) ==
    /\ BulkStart(op)
    /\ count' = 0
    /\ idx' = FirstIdx
    /\ bpc' = "Count.RLock"
    /\ UNCHANGED <<mapVars, histVars, othersVars, data, todo, cur, fnCalls, ret>>

\* shard := m[i]; shard.RLock()
CountRLock ==
    /\ bpc = "Count.RLock"
    /\ RLock(idx)
    /\ bsnap' = [bsnap EXCEPT ![idx] = items[idx]]
    /\ bpc' = "Count.len"
    /\ UNCHANGED <<items, calls, histVars, othersVars, during,
                   bop, idx, count, data, todo, cur, fnCalls, ret>>

\* (mutant) count = len(shard.items): the partition's size replaces the sum
CountLenAssign ==
    /\ bpc = "Count.len"
    /\ count' = Cardinality(DOMAIN items[idx])
    /\ bpc' = "Count.RUnlock"
    /\ UNCHANGED <<mapVars, calls, histVars, othersVars, during,
                   bop, idx, data, todo, cur, fnCalls, bsnap, ret>>

\* count += len(shard.items)
CountLen ==
    /\ bpc = "Count.len"
    /\ count' = count + Cardinality(DOMAIN items[idx])
    /\ bpc' = "Count.RUnlock"
    /\ UNCHANGED <<mapVars, calls, histVars, othersVars, during,
                   bop, idx, data, todo, cur, fnCalls, bsnap, ret>>

\* (mutant) Count goes to the next partition without shard.RUnlock()
CountNoRUnlock ==
    /\ bpc = "Count.RUnlock"
    /\ idx' = NextIdx(idx)
    /\ bpc' = IF idx' < totalShardCount THEN "Count.RLock" ELSE "Count.return"
    /\ UNCHANGED <<mapVars, calls, histVars, othersVars, during,
                   bop, count, data, todo, cur, fnCalls, bsnap, ret>>

\* shard.RUnlock(); i++
CountRUnlock ==
    /\ bpc = "Count.RUnlock"
    /\ RUnlock(idx)
    /\ idx' = NextIdx(idx)
    /\ bpc' = IF idx' < totalShardCount THEN "Count.RLock" ELSE "Count.return"
    /\ UNCHANGED <<items, calls, histVars, othersVars, during,
                   bop, count, data, todo, cur, fnCalls, bsnap, ret>>

\* return count
CountReturn ==
    /\ bpc = "Count.return"
    /\ bop = "Count"
    /\ BulkReturn

\* m.Count() == 0
IsEmptyTest ==
    /\ bpc = "Count.return"
    /\ bop = "IsEmpty"
    /\ ret' = [op |-> "IsEmpty", val |-> (count = 0)]
    /\ bpc' = "IsEmpty.return"
    /\ UNCHANGED <<mapVars, calls, histVars, othersVars, during,
                   bop, idx, count, data, todo, cur, fnCalls, bsnap>>

\* return m.Count() == 0
IsEmptyReturn ==
    /\ bpc = "IsEmpty.return"
    /\ BulkReturn

\* the loop of Count, whoever called it
CountLoop == CountRLock \/ CountLen \/ CountRUnlock

\* Count's call and return (as called by the user, not by IsEmpty or Keys)
Count == CountCall("Count") \/ CountReturn

\* IsEmpty's call and return
IsEmpty == CountCall("IsEmpty") \/ IsEmptyTest \/ IsEmptyReturn

\* ---------------------------------------------------------------- MSet
\* the maps MSet is called with: two entries or more, one value
Max(S) == CHOOSE x \in S : \A y \in S : x >= y
Inputs == { [k \in D |-> Max(Values)] : D \in { E \in SUBSET Keys : Cardinality(E) >= 2 } }

\* MSet(data)
MSetCall ==
    /\ BulkStart("MSet")
    /\ \E d \in Inputs :
          /\ data' = d
          /\ todo' = DOMAIN d
    /\ cur' = <<>>
    /\ bpc' = "MSet.range"
    /\ UNCHANGED <<mapVars, histVars, othersVars, idx, count, fnCalls, ret>>

\* (mutant) MSet takes every entry's lock before it stores any
MSetLockAll ==
    /\ bpc = "MSet.range"
    /\ todo # {}
    /\ \E key \in todo :
          /\ cur' = key
          /\ todo' = todo \ {key}
    /\ \A s \in { GetShard(k) : k \in DOMAIN data } : ~rw[s].w /\ rw[s].r = 0
    /\ rw' = [s \in Shards |->
                IF s \in { GetShard(k) : k \in DOMAIN data }
                THEN [rw[s] EXCEPT !.w = TRUE] ELSE rw[s]]
    /\ bpc' = "MSet.store"
    /\ UNCHANGED <<items, calls, histVars, othersVars, during,
                   bop, idx, count, data, fnCalls, bsnap, ret>>

\* for key, value := range data { shard := m.GetShard(key); shard.Lock()
MSetLock ==
    /\ bpc = "MSet.range"
    /\ \E key \in todo :
          /\ cur' = key
          /\ todo' = todo \ {key}
          /\ Lock(GetShard(key))
    /\ bpc' = "MSet.store"
    /\ UNCHANGED <<items, calls, histVars, othersVars, during,
                   bop, idx, count, data, fnCalls, bsnap, ret>>

\* shard.items[key] = value
MSetStore ==
    /\ bpc = "MSet.store"
    /\ items' = [items EXCEPT ![GetShard(cur)] = Store(@, cur, data[cur])]
    /\ NoteStore(cur, data[cur])
    /\ during' = [during EXCEPT !.sizes = @ \cup {MapSize(items')}]
    /\ bpc' = "MSet.Unlock"
    /\ UNCHANGED <<rw, calls, inserted, othersVars,
                   bop, idx, count, data, todo, cur, fnCalls, bsnap, ret>>

\* shard.Unlock(); on to the next entry, if any
MSetUnlock ==
    /\ bpc = "MSet.Unlock"
    /\ Unlock(GetShard(cur))
    /\ bpc' = IF todo # {} THEN "MSet.range" ELSE "MSet.return"
    /\ UNCHANGED <<items, calls, histVars, othersVars, during,
                   bop, idx, count, data, todo, cur, fnCalls, bsnap, ret>>

\* the range is over: MSet returns
MSetReturn ==
    /\ bpc = "MSet.return"
    /\ BulkReturn

MSet == MSetCall \/ MSetLock \/ MSetStore \/ MSetUnlock \/ MSetReturn

\* ---------------------------------------------------------- IteratorCb
\* the keys of partition idx that fn has not been called with in this turn
CbUnvisited ==
    DOMAIN items[idx]
        \ { fnCalls[i].Key : i \in { j \in DOMAIN fnCalls : fnCalls[j].shard = idx } }

\* IteratorCb(fn); for idx := range m
IteratorCbCall ==
    /\ BulkStart("IteratorCb")
    /\ fnCalls' = <<>>
    /\ idx' = FirstIdx
    /\ bpc' = "IteratorCb.RLock"
    /\ UNCHANGED <<mapVars, histVars, othersVars, count, data, todo, cur, ret>>

\* (mutant) IteratorCb ranges over the partition without shard.RLock()
IteratorCbNoRLock ==
    /\ bpc = "IteratorCb.RLock"
    /\ rw' = [rw EXCEPT ![idx].r = @ + 1]
    /\ bsnap' = [bsnap EXCEPT ![idx] = items[idx]]
    /\ bpc' = "IteratorCb.range"
    /\ UNCHANGED <<items, calls, histVars, othersVars, during,
                   bop, idx, count, data, todo, cur, fnCalls, ret>>

\* shard := (m)[idx]; shard.RLock()
IteratorCbRLock ==
    /\ bpc = "IteratorCb.RLock"
    /\ RLock(idx)
    /\ bsnap' = [bsnap EXCEPT ![idx] = items[idx]]
    /\ bpc' = "IteratorCb.range"
    /\ UNCHANGED <<items, calls, histVars, othersVars, during,
                   bop, idx, count, data, todo, cur, fnCalls, ret>>

\* for key, value := range shard.items { fn(key, value) }
IteratorCbFn ==
    /\ bpc = "IteratorCb.range"
    /\ \E key \in CbUnvisited :
          fnCalls' = Append(fnCalls, [Key |-> key, Val |-> items[idx][key], shard |-> idx])
    /\ UNCHANGED <<mapVars, calls, histVars, othersVars, during,
                   bpc, bop, idx, count, data, todo, cur, bsnap, ret>>

\* shard.RUnlock(); on to the next idx
IteratorCbRUnlock ==
    /\ bpc = "IteratorCb.range"
    /\ CbUnvisited = {}
    /\ RUnlock(idx)
    /\ idx' = NextIdx(idx)
    /\ bpc' = IF idx' < totalShardCount THEN "IteratorCb.RLock" ELSE "IteratorCb.return"
    /\ UNCHANGED <<items, calls, histVars, othersVars, during,
                   bop, count, data, todo, cur, fnCalls, bsnap, ret>>

IteratorCbReturn ==
    /\ bpc = "IteratorCb.return"
    /\ BulkReturn

IteratorCb ==
    \/ IteratorCbCall
    \/ IteratorCbRLock
    \/ IteratorCbFn
    \/ IteratorCbRUnlock
    \/ IteratorCbReturn

\* ---------------------------------------------------------------- Keys
\* what a step of Keys' goroutines leaves alone
keysOthers == <<pc, call, loc, calls, histVars, iterVars, logVars, during,
                bop, idx, count, data, todo, cur, fnCalls, bsnap>>

\* count := m.Count(); ch := make(chan string, count); go func() { wg.Add(...);
\* go func(shard) ... }(); keys := make([]string, 0, count)
KeysMake ==
    /\ bpc = "Count.return"
    /\ bop = "Keys"
    /\ kch' = [cap |-> count, buf |-> <<>>, closed |-> FALSE]
    /\ kwg' = Cardinality(Shards)
    /\ kpc' = [s \in Shards |-> "RLock"]
    /\ ksent' = [s \in Shards |-> {}]
    /\ ksnap' = [s \in Shards |-> <<>>]
    /\ kcl' = "Wait"
    /\ keys' = <<>>
    /\ bpc' = "Keys.range"
    /\ UNCHANGED <<mapVars, keysOthers, ret>>

\* shard.RLock()
KeysRLock(s) ==
    /\ kpc[s] = "RLock"
    /\ RLock(s)
    /\ ksnap' = [ksnap EXCEPT ![s] = items[s]]
    /\ kpc' = [kpc EXCEPT ![s] = "range"]
    /\ UNCHANGED <<items, keysOthers, bpc, ret, kch, kwg, ksent, kcl, keys>>

\* the keys of partition s its range loop has yet to send
KeysUnvisited(s) == DOMAIN items[s] \ ksent[s]

\* for key := range shard.items { ch <- key }: there is room in ch
KeysSend(s) ==
    /\ kpc[s] = "range"
    /\ Len(kch.buf) < kch.cap
    /\ \E key \in KeysUnvisited(s) :
          /\ kch' = [kch EXCEPT !.buf = Append(@, key)]
          /\ ksent' = [ksent EXCEPT ![s] = @ \cup {key}]
    /\ UNCHANGED <<mapVars, keysOthers, bpc, ret, kpc, kwg, ksnap, kcl, keys>>

\* ch <- key on a ch without capacity: the caller, at its receive, takes the key
KeysHandoff(s) ==
    /\ kpc[s] = "range"
    /\ kch.cap = 0
    /\ bpc = "Keys.range"
    /\ \E key \in KeysUnvisited(s) :
          /\ keys' = Append(keys, key)
          /\ ksent' = [ksent EXCEPT ![s] = @ \cup {key}]
    /\ UNCHANGED <<mapVars, keysOthers, bpc, ret, kch, kpc, kwg, ksnap, kcl>>

\* the range loop is over: shard.RUnlock()
KeysRUnlock(s) ==
    /\ kpc[s] = "range"
    /\ KeysUnvisited(s) = {}
    /\ RUnlock(s)
    /\ kpc' = [kpc EXCEPT ![s] = "Done"]
    /\ UNCHANGED <<items, keysOthers, bpc, ret, kch, kwg, ksent, ksnap, kcl, keys>>

\* wg.Done()
KeysDone(s) ==
    /\ kpc[s] = "Done"
    /\ kwg' = kwg - 1
    /\ kpc' = [kpc EXCEPT ![s] = "end"]
    /\ UNCHANGED <<mapVars, keysOthers, bpc, ret, kch, ksent, ksnap, kcl, keys>>

\* (mutant) close(ch) without wg.Wait()
KeysCloseNoWait ==
    /\ kcl = "Wait"
    /\ kch' = [kch EXCEPT !.closed = TRUE]
    /\ kcl' = "end"
    /\ UNCHANGED <<mapVars, keysOthers, bpc, ret, kpc, kwg, ksent, ksnap, keys>>

\* wg.Wait(); close(ch)
KeysClose ==
    /\ kcl = "Wait"
    /\ kwg = 0
    /\ kch' = [kch EXCEPT !.closed = TRUE]
    /\ kcl' = "end"
    /\ UNCHANGED <<mapVars, keysOthers, bpc, ret, kpc, kwg, ksent, ksnap, keys>>

\* for k := range ch { keys = append(keys, k) }
KeysRecv ==
    /\ bpc = "Keys.range"
    /\ kch.buf # <<>>
    /\ keys' = Append(keys, Head(kch.buf))
    /\ kch' = [kch EXCEPT !.buf = Tail(@)]
    /\ UNCHANGED <<mapVars, keysOthers, bpc, ret, kpc, kwg, ksent, ksnap, kcl>>

\* ch is closed and empty: the range loop is over
KeysEnd ==
    /\ bpc = "Keys.range"
    /\ kch.closed
    /\ kch.buf = <<>>
    /\ bpc' = "Keys.return"
    /\ UNCHANGED <<mapVars, keysOthers, ret, keysVars>>

\* return keys
KeysReturn ==
    /\ bpc = "Keys.return"
    /\ BulkReturn

\* the goroutine collecting partition s
KeysCollect(s) ==
    KeysRLock(s) \/ KeysSend(s) \/ KeysHandoff(s) \/ KeysRUnlock(s) \/ KeysDone(s)

\* Keys, but for the loop of the Count it calls
KeysCall ==
    \/ CountCall("Keys")
    \/ KeysMake
    \/ \E s \in Shards : KeysCollect(s)
    \/ KeysClose
    \/ KeysRecv
    \/ KeysEnd
    \/ KeysReturn

\* -------------------------------------------------------------- logger
\* what a step of the logger leaves alone
mapSide == <<mapVars, calls, histVars, pc, call, loc, iterVars, bulkVars, keysVars, during>>

\* the thresholds a caller may set: any int, the severities and one beyond
\* them on either side here
Thresholds == (LogFatal - 1) .. (LogDebug + 1)
Severities == { LogFatal, LogError, LogWarning, LogInfo, LogDebug }

\* the events a caller passes: none, one json.Marshal encodes, one it rejects
\* (a channel, a func); and what eventToEventId makes of them
Events == { "nil", "ok", "bad" }
eventToEventId(event) ==
    CASE event = "nil" -> "id:nil"
      [] event = "ok" -> "id:ok"
      [] event = "bad" -> "id:bad"
Marshalable(event) == event \notin { "bad", "id:bad" }

severityToString(severity) ==
    CASE severity = LogFatal -> "FATAL"
      [] severity = LogError -> "ERROR"
      [] severity = LogInfo -> "INFO"
      [] severity = LogWarning -> "WARNING"
      [] severity = LogDebug -> "DEBUG"
      [] OTHER -> "UNKNOWN"

\* the process runs and the goroutine that logs is between two calls
LogIdle == lpc = "idle" /\ exit = NoExit

\* lwInst.CurrentLogSeverity = severity
SetLogSeverity ==
    /\ LogIdle
    /\ \E severity \in Thresholds :
          lwInst' = [lwInst EXCEPT !.CurrentLogSeverity = severity]
    /\ UNCHANGED <<mapSide, lpc, lcall, rows, exit>>

\* lwInst.CurrentLogFormat = fmt
SetLogFormat ==
    /\ LogIdle
    /\ \E fmt \in { LogTextFormat, LogJsonFormat } :
          lwInst' = [lwInst EXCEPT !.CurrentLogFormat = fmt]
    /\ UNCHANGED <<mapSide, lpc, lcall, rows, exit>>

\* lwInst.StringifyEvent = s
StringifyEvent ==
    /\ LogIdle
    /\ \E b \in BOOLEAN :
          lwInst' = [lwInst EXCEPT !.StringifyEvent = b]
    /\ UNCHANGED <<mapSide, lpc, lcall, rows, exit>>

\* a call of logWithSeverity(severity, event, ...) by one of the functions
LogEnter(severity, event, fatal) ==
    /\ LogIdle
    /\ lcall' = [severity |-> severity, event |-> event, fatal |-> fatal,
                 rowsBefore |-> Len(rows)]
    /\ lpc' = "logWithSeverity"
    /\ UNCHANGED <<mapSide, lwInst, rows, exit>>

\* Fatal(format, a...): logWithSeverity(LogFatal, nil, format, a...)
Fatal == LogEnter(LogFatal, "nil", TRUE)

\* FatalEvent(event, format, a...)
FatalEvent == \E event \in Events : LogEnter(LogFatal, event, TRUE)

\* FatalEvenId(eventId, event, format, a...)
FatalEvenId == \E event \in Events : LogEnter(LogFatal, eventToEventId(event), TRUE)

\* Error, Warning, Info, Debug and their Event and EventId variants
LogNonFatal ==
    /\ Len(rows) < MaxRows
    /\ \E severity \in Severities \ {LogFatal} :
       \E event \in Events \cup { eventToEventId(e) : e \in Events } :
          LogEnter(severity, event, FALSE)

\* if severity <= lwInst.CurrentLogSeverity { if lwInst.CurrentLogFormat == LogTextFormat
logFilter ==
    /\ lpc = "logWithSeverity"
    /\ lpc' = IF lcall.severity <= lwInst.CurrentLogSeverity
              THEN IF lwInst.CurrentLogFormat = LogTextFormat THEN "text" ELSE "json"
              ELSE "logged"
    /\ UNCHANGED <<mapSide, lwInst, lcall, rows, exit>>

\* wholeRow := fmt.Sprintf(...); log.Println(wholeRow)
logText ==
    /\ lpc = "text"
    /\ rows' = Append(rows, [format |-> LogTextFormat,
                             severity |-> severityToString(lcall.severity),
                             event |-> "none"])
    /\ lpc' = "logged"
    /\ UNCHANGED <<mapSide, lwInst, lcall, exit>>

\* jsonRow.Event: the marshalled event if StringifyEvent and json.Marshal
\* took it, the event itself if not StringifyEvent, nothing otherwise
jsonRowEvent ==
    IF lcall.event = "nil" THEN "none"
    ELSE IF lwInst.StringifyEvent
         THEN IF Marshalable(lcall.event) THEN "string" ELSE "none"
         ELSE lcall.event

\* if bv, err := json.Marshal(jsonRow); err == nil { log.Println(string(bv)) }
logJson ==
    /\ lpc = "json"
    /\ rows' = IF Marshalable(jsonRowEvent)
               THEN Append(rows, [format |-> LogJsonFormat,
                                  severity |-> severityToString(lcall.severity),
                                  event |-> jsonRowEvent])
               ELSE rows
    /\ lpc' = "logged"
    /\ UNCHANGED <<mapSide, lwInst, lcall, exit>>

\* logWithSeverity returns to a function that returns to its caller
logReturn ==
    /\ lpc = "logged"
    /\ ~lcall.fatal
    /\ lpc' = "idle"
    /\ lcall' = NoLogCall
    /\ UNCHANGED <<mapSide, lwInst, rows, exit>>

\* os.Exit(255)
osExit ==
    /\ lpc = "logged"
    /\ lcall.fatal
    /\ exit' = 255
    /\ lpc' = "exited"
    /\ UNCHANGED <<mapSide, lwInst, lcall, rows>>

logWithSeverity == logFilter \/ logText \/ logJson

NextLog ==
    \/ SetLogSeverity
    \/ SetLogFormat
    \/ StringifyEvent
    \/ Fatal
    \/ FatalEvent
    \/ FatalEvenId
    \/ LogNonFatal
    \/ logWithSeverity
    \/ logReturn
    \/ osExit

\* ------------------------------------------------------- specification
Next ==
    /\ \E p \in Procs :
          \/ Set(p)
          \/ UpdateOrInsert(p)
          \/ SetIfAbsent(p)
          \/ Get(p)
          \/ Remove(p)
          \/ Pop(p)
    /\ UNCHANGED <<iterVars, callerVars, during>>

Spec == Init /\ [][Next]_vars

\* The map's contents when Iterator is called: what earlier Set calls left
Contents ==
    { m \in [Shards -> UNION { [D -> Values] : D \in SUBSET Keys }] :
         \A s \in Shards : \A k \in DOMAIN m[s] : GetShard(k) = s }

InitDrain ==
    /\ items \in Contents
    /\ rw = [s \in Shards |-> [w |-> FALSE, r |-> 0]]
    /\ InitProcs
    /\ sum = [k \in Keys |-> Lookup(items[GetShard(k)], k)]
    /\ inserted = [k \in Keys |-> 0]
    /\ popped = [k \in Keys |-> 0]
    /\ InitIterator
    /\ InitCallers

\* Iterator or IteratorBuffered on a map nobody else is using, the consumer
\* receiving until ch is closed.  Every goroutine that can take a step
\* eventually takes one (the Go scheduler starves no runnable goroutine).
NextDrain ==
    \/ Pipeline
    \/ ConsumerRecv
    \/ \E s \in Shards : ForwardHandoff(s)
    \/ ConsumerEnd

SpecDrain == InitDrain /\ [][NextDrain]_vars /\ WF_vars(NextDrain)

\* a call made while the iteration runs: one that stores, one that reads,
\* one that deletes
Call(p) ==
    \/ Set(p)
    \/ Get(p)
    \/ Remove(p)

\* the steps of a call that has the lock
Continue(p) ==
    \/ SetStore(p) \/ SetUnlock(p)
    \/ GetRead(p) \/ GetRUnlock(p)
    \/ RemoveDelete(p) \/ RemoveUnlock(p)

KeysOf(s) == { k \in Keys : GetShard(k) = s }

\* The contents SpecIter starts from: each partition empty or full
IterContents ==
    { m \in Contents :
        \A s \in Shards :
            /\ DOMAIN m[s] \in { {}, KeysOf(s) }
            /\ \A k \in DOMAIN m[s] : m[s][k] = Min(Values) }

\* Iterator or IteratorBuffered on a map in use: one more call is made while
\* the iteration runs
InitIter ==
    /\ items \in IterContents
    /\ rw = [s \in Shards |-> [w |-> FALSE, r |-> 0]]
    /\ pc = [p \in Procs |-> "idle"]
    /\ call = [p \in Procs |-> NoCall]
    /\ loc = [p \in Procs |-> NoLoc]
    /\ calls = MaxCalls - 1
    /\ sum = [k \in Keys |-> Lookup(items[GetShard(k)], k)]
    /\ inserted = [k \in Keys |-> 0]
    /\ popped = [k \in Keys |-> 0]
    /\ InitIterator
    /\ InitCallers

NextIter ==
    \/ (\E p \in Procs : Call(p)) /\ UNCHANGED <<iterVars, callerVars, during>>
    \/ Pipeline
    \/ Consumer

\* Every goroutine of the pipeline, and every call that has its lock, keeps
\* running (the Go scheduler starves no runnable goroutine); nothing makes the
\* consumer receive, and nothing makes anybody start a call.
Progress ==
    \/ Pipeline
    \/ (\E p \in Procs : Continue(p)) /\ UNCHANGED <<iterVars, callerVars, during>>

SpecIter == InitIter /\ [][NextIter]_vars /\ WF_vars(Progress)

\* a step of somebody else is noted in the history of the running bulk call
Observe ==
    during' = IF bpc = "idle" THEN during
              ELSE [sizes |-> IF bop \in { "Count", "IsEmpty" }
                              THEN during.sizes \cup {MapSize(items')}
                              ELSE during.sizes,
                    written |-> during.written \/ items' # items]

\* any single-key call
CallAny(p) ==
    \/ Set(p)
    \/ UpdateOrInsert(p)
    \/ SetIfAbsent(p)
    \/ Get(p)
    \/ HasCall(p)
    \/ Remove(p)
    \/ Pop(p)

\* the calls that go over all the partitions
Bulk ==
    \/ MSet
    \/ Count
    \/ IsEmpty
    \/ CountLoop
    \/ IteratorCb
    \/ KeysCall

\* Every operation of the map that takes a lock: two calls, each of them
\* single-key, over all the partitions, or the snapshot of an IteratorBuffered
\* up to its return (what fanIn and the consumer do after it touches no
\* partition).
InitAll ==
    /\ NewConcurrentMap
    /\ pc = [p \in Procs |-> "idle"]
    /\ call = [p \in Procs |-> NoCall]
    /\ loc = [p \in Procs |-> NoLoc]
    /\ calls = MaxCalls - 2
    /\ InitHist
    /\ InitIterator
    /\ InitCallers

\* the calls started, the iterator's among them
Started == calls + IF ipc = "idle" THEN 0 ELSE 1

NextAll ==
    /\ \/ (\E p \in Procs : CallAny(p)) /\ Observe /\ UNCHANGED <<iterVars, callerVars>>
       \/ Bulk
       \/ snapshot(Buffered)
       \/ \E s \in Shards : snapshotTask(s)
       \/ SnapshotWait
    /\ Started' <= MaxCalls

SpecAll == InitAll /\ [][NextAll]_vars

\* Goroutines call Set on keys no other Set was called with, on a map that
\* starts empty; Count and Get are called at any time.  A goroutine that has
\* its lock, or that is in Count's loop, keeps running.
SetDistinct(p) ==
    /\ Set(p)
    /\ pc[p] = "idle" =>
          /\ sum[call'[p].key] = nil
          /\ \A q \in Procs : call[q].key # call'[p].key

NextSets ==
    \/ /\ \E p \in Procs : SetDistinct(p) \/ Get(p)
       /\ Observe
       /\ UNCHANGED <<iterVars, callerVars>>
    \/ Count
    \/ CountLoop

ProgressSets ==
    \/ /\ \E p \in Procs : SetStore(p) \/ SetUnlock(p) \/ GetRead(p) \/ GetRUnlock(p)
       /\ Observe
       /\ UNCHANGED <<iterVars, callerVars>>
    \/ CountLoop
    \/ CountReturn

SpecSets == Init /\ [][NextSets]_vars /\ WF_vars(ProgressSets)

\* Writers and readers of single keys: Set, Remove, Get, Has
NextRW ==
    /\ \E p \in Procs : Set(p) \/ Remove(p) \/ Get(p) \/ HasCall(p)
    /\ UNCHANGED <<iterVars, callerVars, during>>

SpecRW == Init /\ [][NextRW]_vars

\* A call of MSet, Count, IsEmpty, IteratorCb or Keys on a map whose
\* partitions are empty or full, with calls of Set, Get and Remove by other
\* goroutines while it runs: one specification for each.  In SpecKeys whoever
\* has its lock or is inside a call keeps running; nothing makes anybody
\* start a call.
InitBulkCalls ==
    /\ items \in IterContents
    /\ rw = [s \in Shards |-> [w |-> FALSE, r |-> 0]]
    /\ InitProcs
    /\ sum = [k \in Keys |-> Lookup(items[GetShard(k)], k)]
    /\ inserted = [k \in Keys |-> 0]
    /\ popped = [k \in Keys |-> 0]
    /\ InitIterator
    /\ InitCallers

\* the calls of the other goroutines while the call runs
Others ==
    /\ bpc # "idle"
    /\ \E p \in Procs : Call(p)
    /\ Observe
    /\ UNCHANGED <<iterVars, callerVars>>

NextCount == Others \/ Count \/ IsEmpty \/ CountLoop
SpecCount == InitBulkCalls /\ [][NextCount]_vars

NextCb == Others \/ IteratorCb
SpecCb == InitBulkCalls /\ [][NextCb]_vars

NextMSet == Others \/ MSet
SpecMSet == InitBulkCalls /\ [][NextMSet]_vars

\* the writers that run while Keys does
Writer(p) == Set(p) \/ Remove(p)
WriterContinue(p) == SetStore(p) \/ SetUnlock(p) \/ RemoveDelete(p) \/ RemoveUnlock(p)

NextKeys ==
    \/ /\ bpc # "idle"
       /\ \E p \in Procs : Writer(p)
       /\ UNCHANGED <<iterVars, callerVars, during>>
    \/ KeysCall
    \/ CountLoop

ProgressKeys ==
    \/ /\ \E p \in Procs : WriterContinue(p)
       /\ UNCHANGED <<iterVars, callerVars, during>>
    \/ bpc # "idle" /\ (KeysCall \/ CountLoop)

\* Keys and one writer
InitKeysCalls ==
    /\ items \in IterContents
    /\ rw = [s \in Shards |-> [w |-> FALSE, r |-> 0]]
    /\ pc = [p \in Procs |-> "idle"]
    /\ call = [p \in Procs |-> NoCall]
    /\ loc = [p \in Procs |-> NoLoc]
    /\ calls = MaxCalls - 2
    /\ sum = [k \in Keys |-> Lookup(items[GetShard(k)], k)]
    /\ inserted = [k \in Keys |-> 0]
    /\ popped = [k \in Keys |-> 0]
    /\ InitIterator
    /\ InitCallers

SpecKeys == InitKeysCalls /\ [][NextKeys]_vars /\ WF_vars(ProgressKeys)

\* the logger, used by one goroutine
SpecLog == InitAll /\ [][NextLog]_vars

\* ------------------------------------------------------------- properties
\* goroutine p is inside a critical section it entered with shard.Lock()
InWriteSection(p) ==
    pc[p] \in { "Set.store", "Set.Unlock",
                "UpdateOrInsert.read", "UpdateOrInsert.cb", "UpdateOrInsert.store",
                "UpdateOrInsert.Unlock",
                "SetIfAbsent.read", "SetIfAbsent.store", "SetIfAbsent.Unlock",
                "Remove.delete", "Remove.Unlock",
                "Pop.read", "Pop.delete", "Pop.Unlock" }

Stored(key) == Lookup(items[GetShard(key)], key)
Present(key) == Has(items[GetShard(key)], key)

\* C1: UpdateOrInsert is atomic per key.  Under every interleaving the value
\* stored under a key is what the writes committed under it add up to, every
\* additive UpdateOrInsert contributing its candidate exactly once (so after
\* N calls on a fresh key the value is the sum of the N candidates: no update
\* is lost), and the value a call is about to return is the value it stored.
C1_UpdateOrInsertAtomic ==
    /\ \A k \in Keys : Stored(k) = sum[k]
    /\ \A p \in Procs :
          pc[p] = "UpdateOrInsert.Unlock" =>
             /\ Present(call[p].key)
             /\ Stored(call[p].key) = loc[p].res
             /\ loc[p].res = Lookup(loc[p].before, call[p].key) + call[p].value

\* C1 witness: a call has added its candidate to a value that two earlier
\* stores built up (2 + 2 + 2), and is about to return the total.
C1_Witness ==
    \E p \in Procs :
        /\ pc[p] = "UpdateOrInsert.Unlock"
        /\ loc[p].ok
        /\ loc[p].v = 4
        /\ loc[p].res = 6
        /\ Stored(call[p].key) = 6

\* C2: a combinator that panics does not leave the partition's lock held:
\* the partition of a failed call is write-locked only while some call is
\* inside its critical section (so a later call can take the lock).
C2_PanicReleasesLock ==
    \A p \in Procs :
        pc[p] = "panicked" =>
            (rw[Shard(p)].w => \E q \in Procs : InWriteSection(q) /\ Shard(q) = Shard(p))

\* C3: a combinator that panics commits no partial write: the partition's
\* mapping is what it was when the call took the lock.
C3_PanicWritesNothing ==
    \A p \in Procs :
        pc[p] = "panicked" => items[Shard(p)] = loc[p].before

\* C3 witness: a call has panicked on a partition that holds both of its keys
C3_Witness ==
    \E p \in Procs :
        /\ pc[p] = "panicked"
        /\ Cardinality(DOMAIN items[Shard(p)]) = 2

\* C9: SetIfAbsent inserts only when the key is absent.  What the call decides
\* on is the key's presence at the time it stores; a call that found the key
\* absent (it returns true) has installed its value, a call that found it
\* present (it returns false) has left the mapping as it was; and between two
\* deletions of a key at most one SetIfAbsent call finds it absent.
C9_SetIfAbsent ==
    /\ \A k \in Keys : inserted[k] <= 1
    /\ \A p \in Procs :
          /\ pc[p] = "SetIfAbsent.store" => loc[p].ok = Present(call[p].key)
          /\ pc[p] = "SetIfAbsent.Unlock" =>
                IF loc[p].ok
                  THEN items[Shard(p)] = loc[p].before
                  ELSE /\ items[Shard(p)] = Store(loc[p].before, call[p].key, call[p].value)
                       /\ inserted[call[p].key] = 1

\* C9 witness: a second SetIfAbsent with a different value is about to return
\* false, the first one's value still stored.
C9_Witness ==
    \E p \in Procs :
        /\ pc[p] = "SetIfAbsent.Unlock"
        /\ loc[p].ok
        /\ inserted[call[p].key] = 1
        /\ Stored(call[p].key) # call[p].value

\* C10: Pop reads and deletes in one critical section.  What a Pop returns is
\* what it deletes; after it the key is absent and nothing else has changed
\* (nothing at all when the key was absent); and between two stores of a key
\* at most one Pop finds it present.
C10_PopAtomic ==
    /\ \A k \in Keys : popped[k] <= 1
    /\ \A p \in Procs :
          /\ pc[p] = "Pop.delete" =>
                /\ loc[p].ok = Present(call[p].key)
                /\ loc[p].v = Stored(call[p].key)
          /\ pc[p] = "Pop.Unlock" =>
                /\ ~Present(call[p].key)
                /\ items[Shard(p)] = Delete(loc[p].before, call[p].key)
                /\ loc[p].ok = Has(loc[p].before, call[p].key)
                /\ loc[p].v = Lookup(loc[p].before, call[p].key)
                /\ ~loc[p].ok => items[Shard(p)] = loc[p].before

\* C10 witness: a Pop is about to return existed = false for a key that an
\* earlier Pop found present and deleted.
C10_Witness ==
    \E p \in Procs :
        /\ pc[p] = "Pop.Unlock"
        /\ ~loc[p].ok
        /\ popped[call[p].key] = 1

\* ------------------------------------------------ properties of iteration
RECURSIVE SumOver(_, _)
SumOver(f, S) ==
    IF S = {} THEN 0
    ELSE LET s == CHOOSE x \in S : TRUE IN f[s] + SumOver(f, S \ {s})

\* the entries of the map, as tuples
MapTuples == UNION { Tuples(items[s]) : s \in Shards }
\* the entries the partitions held when their snapshot goroutines locked them
SnapTuples == UNION { Tuples(snap[s]) : s \in Shards }
\* how many tuples the snapshot goroutines have sent
SentCount == SumOver([s \in Shards |-> Cardinality(sent[s])], Shards)

Returned == ipc \in { "range", "drained", "abandoned" }
HoldsRLock(s) == spc[s] \in { "Done", "range" }
PipelineDone ==
    /\ out.closed
    /\ fpc = "end"
    /\ \A s \in Shards : spc[s] = "end" /\ wpc[s] = "end"

\* C4: snapshot completeness.  With no concurrent mutation, a consumer that
\* receives until the channel is closed has received exactly one tuple per key
\* of the map, with the key's value, and once Iterator or IteratorBuffered is
\* called the consumer does get to see the channel closed.
C4_SnapshotComplete ==
    /\ [](ipc = "drained" =>
             /\ out.closed
             /\ received = MapTuples
             /\ nrecv = Cardinality(UNION { DOMAIN items[s] : s \in Shards }))
    /\ (ipc # "idle") ~> (ipc = "drained")

\* C4 witness: all three keys (two of one partition) were received, once each
C4_Witness ==
    /\ ipc = "drained"
    /\ nrecv = Cardinality(Keys)
    /\ { t.Key : t \in received } = Keys

\* C5: what is delivered is what each partition held while its snapshot
\* goroutine held the read lock: the partition does not change under the lock,
\* every partition has been locked by the time the channel is returned, the
\* copy loop sends nothing else, and a drained channel has delivered exactly
\* those entries, whatever was written after.
C5_SnapshotIsolated ==
    /\ \A s \in Shards :
          /\ HoldsRLock(s) => items[s] = snap[s]
          /\ sent[s] \subseteq Tuples(snap[s])
          /\ spc[s] \in { "close", "end" } => sent[s] = Tuples(snap[s])
          /\ Returned => spc[s] \in { "range", "close", "end" }
    /\ received \subseteq SnapTuples
    /\ ipc = "drained" => received = SnapTuples /\ nrecv = Cardinality(SnapTuples)

\* C5 witness: the channel was drained while a copy loop was still to run when
\* it was returned, and the map no longer holds what was delivered
C5_Witness ==
    /\ ipc = "drained"
    /\ nrecv = Cardinality(Keys)
    /\ received # MapTuples

\* C6: out is closed only after every per-partition channel is closed and
\* drained, every forwarding goroutine is through, and every tuple taken has
\* been accepted by out; nobody is about to send on a closed out.
C6_FanInClosesLast ==
    /\ out.closed =>
          /\ \A s \in Shards :
                /\ channels[s].closed
                /\ channels[s].buf = <<>>
                /\ wpc[s] = "end"
                /\ held[s] = NoTuple
          /\ nrecv + Len(out.buf) = SentCount
    /\ \A s \in Shards : wpc[s] = "send" => ~out.closed

\* C6 witness: out is closed after three tuples went through
C6_Witness ==
    /\ out.closed
    /\ SentCount = Cardinality(Keys)
    /\ nrecv + Len(out.buf) = Cardinality(Keys)

\* C7: IteratorBuffered's producers never block on the consumer.  The capacity
\* of ch is the number of tuples copied out, a forwarding goroutine that has a
\* tuple always finds room in ch, and whether or not the consumer receives,
\* the pipeline runs to its end: out gets closed and every goroutine is through.
C7_BufferedNeverBlocks ==
    /\ [](variant = Buffered =>
            /\ Returned => out.cap = Cardinality(SnapTuples)
            /\ \A s \in Shards : wpc[s] = "send" => Len(out.buf) < out.cap)
    /\ (variant = Buffered) ~> PipelineDone

\* C7 witness: the pipeline is through and ch closed, all three tuples in its
\* buffer, the consumer not having received one
C7_Witness ==
    /\ variant = Buffered
    /\ PipelineDone
    /\ nrecv = 0
    /\ Len(out.buf) = Cardinality(Keys)

\* C8: Iterator's pipeline when the consumer stops receiving.  While tuples
\* remain, out is not closed and a forwarding goroutine that has a tuple can
\* do nothing; the only read locks held are those of snapshot goroutines still
\* copying (and of Get calls), every snapshot goroutine that holds a read
\* lock gets to release it, whatever the consumer does, and once they have, a
\* Set, a Get or a Remove of any key gets its lock.
C8_AbandonedHoldsNoLock ==
    /\ [](variant = Unbuffered /\ ipc = "abandoned" =>
            /\ nrecv < Cardinality(SnapTuples) => ~out.closed
            /\ \A s \in Shards :
                  wpc[s] = "send" => ~ENABLED (ForwardSend(s) \/ ForwardHandoff(s)))
    /\ [](\A s \in Shards :
            rw[s].r = (IF HoldsRLock(s) THEN 1 ELSE 0)
                        + Cardinality({ p \in Procs :
                              pc[p] \in { "Get.read", "Get.RUnlock" } /\ Shard(p) = s }))
    /\ \A s \in Shards : HoldsRLock(s) ~> ~HoldsRLock(s)
    /\ [](/\ variant = Unbuffered /\ ipc = "abandoned"
          /\ \A s \in Shards : ~HoldsRLock(s)
          /\ \A p \in Procs : pc[p] = "idle"
          /\ calls < MaxCalls
          => /\ \A k \in Keys :
                   ENABLED Lock(GetShard(k)) /\ ENABLED RLock(GetShard(k))
             /\ ENABLED SetLock(1) /\ ENABLED GetRLock(1) /\ ENABLED RemoveLock(1))

\* C8 witness: the consumer has given up, a forwarding goroutine is stuck with
\* a tuple, no read lock is held any more and a Set has taken a partition's lock
C8_Witness ==
    /\ variant = Unbuffered
    /\ ipc = "abandoned"
    /\ \E s \in Shards : wpc[s] = "send"
    /\ \A s \in Shards : spc[s] = "end" /\ rw[s].r = 0
    /\ \E p \in Procs : pc[p] = "Set.store"

\* --------------------------------------- properties of routing and locking
\* byte strings of length 0, 1 and 2
RouterBytes == { 0, 65, 97, 98, 255 }
RouterKeys == {<<>>} \cup [1 .. 1 -> RouterBytes] \cup [1 .. 2 -> RouterBytes]
RouterInRange == \A k \in RouterKeys : ShardIndex(k) \in 0 .. (totalShardCount - 1)

\* C11: every key the map holds is in one partition only, the one at index
\* fnv32(key) mod 32, whichever operation stored it; the index lies in [0, 32).
C11_KeyInItsPartition ==
    /\ RouterInRange
    /\ \A s \in Shards : \A k \in DOMAIN items[s] : s = ShardIndex(k)
    /\ \A k \in Keys : Cardinality({ s \in Shards : k \in DOMAIN items[s] }) <= 1

\* C11 witness: the three keys are stored, two of them in one partition
C11_Witness ==
    /\ \A k \in Keys : Present(k)
    /\ \E s \in Shards : Cardinality(DOMAIN items[s]) = 2

\* the locks of partition s that are held
LocksHeld(s) == rw[s].r + IF rw[s].w THEN 1 ELSE 0

\* goroutine p is inside a critical section it entered with shard.RLock()
InReadSection(p) ==
    pc[p] \in { "Get.read", "Get.RUnlock", "Has.read", "Has.RUnlock" }

\* the partition the goroutine of MSet, Count, IteratorCb, Keys has locked, if any
BulkWrites(s) == bpc \in { "MSet.store", "MSet.Unlock" } /\ GetShard(cur) = s
BulkReads(s) == bpc \in { "Count.len", "Count.RUnlock", "IteratorCb.range" } /\ idx = s

\* the goroutines between a Lock and its Unlock of partition s (a call that
\* panicked never got to its Unlock), and between an RLock and its RUnlock
Writers(s) ==
    Cardinality({ p \in Procs : InWriteSection(p) /\ Shard(p) = s })
        + IF BulkWrites(s) THEN 1 ELSE 0
Panicked(s) == Cardinality({ p \in Procs : pc[p] = "panicked" /\ Shard(p) = s })
Readers(s) ==
    Cardinality({ p \in Procs : InReadSection(p) /\ Shard(p) = s })
        + (IF BulkReads(s) THEN 1 ELSE 0)
        + (IF HoldsRLock(s) THEN 1 ELSE 0)
        + (IF kpc[s] = "range" THEN 1 ELSE 0)

\* C12: the locks held are, one each, those of the goroutines that are between
\* the lock and the unlock of one partition: nobody holds a partition's lock
\* while it is at, or on its way to, another partition.
C12_OneLockPerGoroutine ==
    \A s \in Shards : LocksHeld(s) = Writers(s) + Panicked(s) + Readers(s)

\* C12 witness: Count is at the second partition and a writer has the lock of
\* the first, which Count has released
C12_Witness ==
    /\ bpc = "Count.len"
    /\ idx # FirstIdx
    /\ rw[FirstIdx].w
    /\ \E p \in Procs : InWriteSection(p) /\ Shard(p) = FirstIdx

\* C13: lock discipline.  Whoever is in a write section of a partition has its
\* write lock and is alone there; whoever is in a read section has a read lock
\* and no writer with it; a partition's mapping changes only in a step of the
\* holder of its write lock.
C13_LockDiscipline ==
    /\ [](\A s \in Shards :
            /\ Writers(s) <= 1
            /\ Writers(s) = 1 => rw[s].w /\ rw[s].r = 0 /\ Readers(s) = 0
            /\ Readers(s) > 0 => ~rw[s].w /\ rw[s].r = Readers(s))
    /\ [][\A s \in Shards :
            items'[s] # items[s] => rw[s].w /\ Writers(s) = 1 /\ rw'[s].w]_vars

\* C13 witness: Count waits for the partition a Set is writing
C13_Witness ==
    /\ bpc = "Count.RLock"
    /\ \E p \in Procs : pc[p] = "Set.store" /\ Shard(p) = idx

\* ------------------------------------------- properties of the other calls
\* the keys a store has put in the map and no delete has taken out
Written == { k \in Keys : sum[k] # nil }

\* C14: partition independence.  Concurrent Sets of distinct keys on a map
\* that starts empty all return, whether or not their keys share a partition;
\* no write is lost; a Count during which nobody writes returns the number of
\* keys set, and a Get of a key that was set returns its value.
C14_SetsIndependent ==
    /\ [](\A k \in Keys : Stored(k) = sum[k] /\ Present(k) = (k \in Written))
    /\ [](bpc = "Count.return" /\ ~during.written => count = Cardinality(Written))
    /\ [](\A p \in Procs : pc[p] = "Get.RUnlock" /\ call[p].key \in Written =>
              loc[p].ok /\ loc[p].v = sum[call[p].key])
    /\ [](bpc = "idle" /\ (\A p \in Procs : pc[p] = "idle") =>
              \A s \in Shards : LocksHeld(s) = 0)
    /\ \A p \in Procs : (pc[p] # "idle") ~> (pc[p] = "idle")
    /\ (bpc # "idle") ~> (bpc = "idle")

\* C14 witness: Count returns 2 after two Sets whose keys share a partition
C14_Witness ==
    /\ bpc = "Count.return"
    /\ ~during.written
    /\ count = 2
    /\ \E s \in Shards : Cardinality(DOMAIN items[s]) = 2

\* the step taken is the store or the delete of a call on key k
WriteStepOn(k) ==
    \E p \in Procs :
        /\ pc[p] \in { "Set.store", "Remove.delete" }
        /\ call[p].key = k
        /\ pc'[p] # pc[p]

\* C15: per-key read-your-writes.  With sum[k] the value of the last store
\* under k (nil after a delete): Get returns (sum[k], true) and Has true when k
\* was last stored, found = false when it was last removed or never stored,
\* and no writer of the partition is in its section while they read; at the
\* end of Set(k, v) k holds v, at the end of Remove(k) k is absent, and the
\* rest of the partition is as it was; the presence or value of a key changes
\* only in the store or delete of a call on that very key.
C15_ReadYourWrites ==
    /\ [](\A p \in Procs :
            /\ InReadSection(p) => Writers(Shard(p)) = 0
            /\ pc[p] = "Get.RUnlock" =>
                  /\ loc[p].ok = (sum[call[p].key] # nil)
                  /\ loc[p].v = sum[call[p].key]
            /\ pc[p] = "Has.RUnlock" => loc[p].ok = (sum[call[p].key] # nil)
            /\ pc[p] = "Set.Unlock" =>
                  /\ sum[call[p].key] = call[p].value
                  /\ items[Shard(p)] = Store(loc[p].before, call[p].key, call[p].value)
            /\ pc[p] = "Remove.Unlock" =>
                  /\ sum[call[p].key] = nil
                  /\ items[Shard(p)] = Delete(loc[p].before, call[p].key))
    /\ [](\A k \in Keys : Stored(k) = sum[k] /\ (Present(k) <=> sum[k] # nil))
    /\ [][\A k \in Keys :
            (Stored(k)' # Stored(k) \/ Present(k)' # Present(k)) => WriteStepOn(k)]_vars

\* C15 witness: Remove has taken a key out of a partition of two and left the other
C15_Witness ==
    \E p \in Procs :
        /\ pc[p] = "Remove.Unlock"
        /\ Cardinality(DOMAIN loc[p].before) = 2
        /\ Cardinality(DOMAIN items[Shard(p)]) = 1

\* ---------------------------------------------------------------- C16
\* the partitions Count has been through, and the one it is in
CountVisited ==
    { s \in Shards : s < idx \/ (s = idx /\ bpc = "Count.RUnlock") }

\* C16: Count is the sum, in index order, of the sizes each partition had
\* while Count held its read lock, not a snapshot of the map: the result may
\* be a size the map never had during the call; when no entry is written
\* during the call the result is the number of keys of the map, and IsEmpty
\* answers true exactly when that count is 0.
C16_CountIsASumOfPartitionSizes ==
    /\ bpc \in { "Count.RLock", "Count.len", "Count.RUnlock" } =>
          /\ idx \in Shards
          /\ count = SizeOver(bsnap, CountVisited)
          /\ \A s \in Shards : s > idx => bsnap[s] = <<>>
    /\ bpc \in { "Count.len", "Count.RUnlock" } =>
          /\ rw[idx].r > 0
          /\ items[idx] = bsnap[idx]
    /\ bpc \in { "Count.return", "IsEmpty.return" } =>
          /\ count = SizeOver(bsnap, Shards)
          /\ ~during.written => count = MapSize(items)
    /\ bpc = "IsEmpty.return" =>
          /\ ret.val = (count = 0)
          /\ ~during.written => (ret.val <=> \A k \in Keys : ~Present(k))

\* Count returns a number of entries the map had at no instant of the call
C16_Witness ==
    /\ bpc = "Count.return"
    /\ bop = "Count"
    /\ during.written
    /\ count \notin during.sizes

\* ---------------------------------------------------------------- C17
\* the calls of fn for the entries of partition s, in the order made
CbCallsIn(s) == { j \in DOMAIN fnCalls : fnCalls[j].shard = s }

\* fn has been called exactly once for each entry partition s held under
\* the read lock, with the entry's value
CbCalledOncePerEntry(s) ==
    /\ Cardinality(CbCallsIn(s)) = Cardinality(DOMAIN bsnap[s])
    /\ \A k \in DOMAIN bsnap[s] :
          \E j \in CbCallsIn(s) : fnCalls[j].Key = k /\ fnCalls[j].Val = bsnap[s][k]

\* the read locks of partition s that IteratorCb holds: those held less those
\* of the calls of other goroutines
CbLocks(s) ==
    rw[s].r - Cardinality({ p \in Procs : InReadSection(p) /\ Shard(p) = s })

\* C17: IteratorCb goes through the partitions in index order, holds the
\* read lock of the partition it is in and of no other, calls fn exactly
\* once for each entry of that partition, which does not change meanwhile,
\* and has released the lock before it goes to the next partition.
C17_IteratorCbPerPartition ==
    /\ \A i, j \in DOMAIN fnCalls : i < j =>
          /\ fnCalls[i].shard <= fnCalls[j].shard
          /\ <<fnCalls[i].shard, fnCalls[i].Key>> # <<fnCalls[j].shard, fnCalls[j].Key>>
    /\ bpc \in { "IteratorCb.RLock", "IteratorCb.range" } =>
          /\ idx \in Shards
          /\ \A s \in Shards : s < idx => CbCalledOncePerEntry(s)
          /\ \A s \in Shards : s > idx => bsnap[s] = <<>> /\ CbCallsIn(s) = {}
    /\ bpc = "IteratorCb.RLock" =>
          /\ CbCallsIn(idx) = {}
          /\ \A s \in Shards : CbLocks(s) = 0
    /\ bpc = "IteratorCb.range" =>
          /\ \A s \in Shards : CbLocks(s) = IF s = idx THEN 1 ELSE 0
          /\ rw[idx].r > 0 /\ ~rw[idx].w
          /\ items[idx] = bsnap[idx]
          /\ \A j \in CbCallsIn(idx) :
                /\ fnCalls[j].Key \in DOMAIN bsnap[idx]
                /\ fnCalls[j].Val = bsnap[idx][fnCalls[j].Key]
    /\ bpc = "IteratorCb.return" =>
          /\ \A s \in Shards : CbCalledOncePerEntry(s) /\ CbLocks(s) = 0
          /\ ~during.written => Len(fnCalls) = MapSize(items)

\* IteratorCb is through a partition of two entries and one of one entry,
\* while another goroutine wrote the map
C17_Witness ==
    /\ bpc = "IteratorCb.return"
    /\ during.written
    /\ \E s, t \in Shards :
          /\ s < t
          /\ Cardinality(CbCallsIn(s)) + Cardinality(CbCallsIn(t)) = 3
          /\ CbCallsIn(s) # {} /\ CbCallsIn(t) # {}

\* ---------------------------------------------------------------- C18
\* the write locks MSet holds on partition s: those held less those of the
\* calls of other goroutines
MSetLocks(s) ==
    (IF rw[s].w THEN 1 ELSE 0)
        - Cardinality({ p \in Procs : (InWriteSection(p) \/ pc[p] = "panicked")
                                        /\ Shard(p) = s })

\* the entries of data MSet has stored
MSetDone == (DOMAIN data \ todo) \ (IF bpc = "MSet.store" THEN {cur} ELSE {})

\* C18: MSet stores its entries one at a time, each under its own partition's
\* lock, taken for that entry and released after it: it holds no lock between
\* two entries, a step of MSet changes the entry of one key of the input and
\* nothing else, and when it returns, no other goroutine having written the
\* map meanwhile, every key of the input has its input value.
C18_MSetEntryByEntry ==
    /\ [](bpc \in { "MSet.range", "MSet.return" } =>
            \A s \in Shards : MSetLocks(s) = 0)
    /\ [](bpc \in { "MSet.store", "MSet.Unlock" } =>
            \A s \in Shards : MSetLocks(s) = IF s = GetShard(cur) THEN 1 ELSE 0)
    /\ [](bop = "MSet" /\ ~during.written =>
            \A k \in MSetDone : Present(k) /\ Stored(k) = data[k])
    /\ [](bpc = "MSet.return" => todo = {} /\ MSetDone = DOMAIN data)
    /\ [][ bop = "MSet" /\ pc' = pc /\ items' # items =>
            /\ bpc = "MSet.store"
            /\ cur \in DOMAIN data
            /\ Stored(cur)' = data[cur]
            /\ \A k \in Keys \ {cur} :
                  Present(k)' = Present(k) /\ Stored(k)' = Stored(k) ]_vars

\* a reader, holding the read lock of a partition, finds one key of the
\* input absent while another key of the input, of the same partition, is
\* stored already and MSet is between the two entries
C18_Witness ==
    /\ bpc = "MSet.range"
    /\ \E p \in Procs :
          /\ pc[p] = "Get.RUnlock"
          /\ ~loc[p].ok
          /\ call[p].key \in todo
          /\ \E j \in DOMAIN data \ todo :
                /\ j # call[p].key
                /\ GetShard(j) = Shard(p)
                /\ DOMAIN items[Shard(p)] = {j}
                /\ items[Shard(p)][j] = data[j]

\* ---------------------------------------------------------------- C19
\* C19: whatever the severity threshold and the output format, a call of
\* Fatal, FatalEvent or FatalEvenId has logged its record, of severity
\* FATAL, when it exits the process, and exits it with status 255.
C19_FatalLogsThenExits ==
    /\ exit \in { NoExit, 255 }
    /\ lpc = "logged" /\ lcall.fatal =>
          /\ Len(rows) = lcall.rowsBefore + 1
          /\ rows[Len(rows)].severity = "FATAL"
    /\ lpc = "exited" =>
          /\ exit = 255
          /\ Len(rows) = lcall.rowsBefore + 1
          /\ rows[Len(rows)].severity = "FATAL"

\* ---------------------------------------------------------------- C20
\* the keys Keys has received, as a set, and those the partitions held
\* when their collectors locked them
KeysReceived == { keys[i] : i \in DOMAIN keys }
KeysHeld == UNION { DOMAIN ksnap[s] : s \in Shards }

\* C20: with writers that finish, Keys returns, also when the map has more
\* keys than Count said and the channel has room for; a collector holds its
\* partition's read lock from its RLock to the last send, so the partition
\* does not change while it is collected, and the slice returned has, for
\* every partition, the keys it held under that lock, each once.
C20_KeysTerminatesWithEveryKey ==
    /\ [](\A s \in Shards :
            kpc[s] = "range" =>
                /\ rw[s].r > 0 /\ ~rw[s].w
                /\ items[s] = ksnap[s]
                /\ ksent[s] \subseteq DOMAIN ksnap[s])
    /\ [](bpc = "Keys.return" =>
            /\ \A s \in Shards : kpc[s] = "end" /\ ksent[s] = DOMAIN ksnap[s]
            /\ KeysReceived = KeysHeld
            /\ Len(keys) = Cardinality(KeysHeld)
            /\ kch.buf = <<>>)
    /\ (bop = "Keys" ~> bpc = "Keys.return")

\* Keys returns more keys than the channel had room for: the map grew after
\* Count, and collectors waited, read lock held, for the caller to receive
C20_Witness ==
    /\ bpc = "Keys.return"
    /\ Len(keys) > kch.cap
    /\ Len(keys) >= 2

====
